---- MODULE Spec2Model ----
(***************************************************************************)
(* Model of site.py, the Superstore dashboard script.                      *)
(*                                                                         *)
(* One run of the script is a render pass: the cached loader               *)
(* carregar_dados() is called at module level, then the seven "with tabN"  *)
(* blocks are executed in order.  The spreadsheet is the environment.      *)
(*                                                                         *)
(* Values.  A cell of a numeric column is [t, n] with t = "num" (n is the  *)
(* number), "text" (not parseable) or "blank" (the empty string gspread    *)
(* returns for an empty cell); after pd.to_numeric it is "num" or "nan".   *)
(* A cell of a date column is [t, n] with t = "date" (n is a day number),  *)
(* "text" or "blank"; after pd.to_datetime it is "date" or "nat".          *)
(* Discounts are counted in hundredths (10 is 0.1, 100 is 1.0).            *)
(* A float that results from a division is [t, num, den] with t = "num"    *)
(* (the value num/den), "nan", "inf" or "-inf".                            *)
(***************************************************************************)
EXTENDS Integers, Sequences, FiniteSets, TLC

VARIABLES
    source,   \* the spreadsheet: [status, columns, rows]
    cache,    \* the st.cache_data entry of carregar_dados: [has, table, at]
    now,      \* wall clock, in seconds
    pc,       \* position of the script run
    ns,       \* the script's module namespace: name -> table
    out       \* what the pass has rendered so far

vars == <<source, cache, now, pc, ns, out>>

----------------------------------------------------------------------------
(* Bounds of the model *)

MaxRows == 2
MaxClock == 20
TickStep == 5

(* st.cache_data(ttl=10) *)
ttl == 10

----------------------------------------------------------------------------
(* Columns and cells *)

NumericColumns == {"Sales", "Profit", "Discount", "Shipping Cost"}

DateColumns == {"Order Date", "Ship Date"}

KeyColumns == {"Ship Mode", "Category", "Sub-Category", "Region", "State", "Segment"}

ExpectedColumns == (NumericColumns \ {"Shipping Cost"}) \cup DateColumns \cup KeyColumns

AllColumns == ExpectedColumns \cup {"Shipping Cost"}

Num(n) == [t |-> "num", n |-> n]

Date(n) == [t |-> "date", n |-> n]

Text == [t |-> "text", n |-> 0]

Blank == [t |-> "blank", n |-> 0]

NaN == [t |-> "nan", n |-> 0]

NaT == [t |-> "nat", n |-> 0]

(* pd.to_numeric(x, errors='coerce') on one cell *)
to_numeric(x) == IF x.t = "num" THEN x ELSE NaN

(* pd.to_datetime(x, errors='coerce') on one cell *)
to_datetime_coerce(x) == IF x.t = "date" THEN x ELSE NaT

(* pd.to_datetime(column), errors='raise' by default: it raises when a cell *)
(* holds text that is no date; an empty string becomes NaT                  *)
to_datetime_raises(rows, col) == \E i \in 1..Len(rows) : rows[i][col].t = "text"

to_datetime(x) == IF x.t = "date" THEN x ELSE NaT

----------------------------------------------------------------------------
(* The spreadsheet *)

SubOf(cat) == IF cat = "A" THEN "Tables" ELSE "Chairs"

RegionOf(cat) == IF cat = "A" THEN "East" ELSE "West"

StateOf(cat) == IF cat = "A" THEN "Texas" ELSE "Ohio"

SegmentOf(cat) == IF cat = "A" THEN "Consumer" ELSE "Corporate"

Record(od, sd, mode, s, p, d, cat) ==
    [c \in AllColumns |->
        CASE c = "Order Date" -> od
          [] c = "Ship Date" -> sd
          [] c = "Ship Mode" -> mode
          [] c = "Sales" -> s
          [] c = "Profit" -> p
          [] c = "Discount" -> d
          [] c = "Category" -> cat
          [] c = "Sub-Category" -> SubOf(cat)
          [] c = "Region" -> RegionOf(cat)
          [] c = "State" -> StateOf(cat)
          [] c = "Segment" -> SegmentOf(cat)
          [] c = "Shipping Cost" -> Num(5)]

(* The records a sheet may hold *)
SourceRecords ==
    { Record(Date(1), Date(5), "Standard", Num(100), Num(20), Num(0), "A"),
      Record(Date(1), Date(7), "First", Num(200), Num(-10), Num(10), "A"),
      Record(Date(400), Date(404), "Standard", Num(50), Num(5), Num(25), "B"),
      Record(Date(2), Date(3), "First", Num(0), Num(5), Num(100), "B"),
      Record(Date(2), Date(4), "Standard", Num(0), Num(-10), Num(10), "B"),
      Record(Date(3), Date(4), "Standard", Text, Num(20), Num(0), "A"),
      Record(Date(3), Date(5), "First", Num(100), Blank, Num(10), "B"),
      Record(Text, Date(5), "Standard", Num(100), Num(20), Num(0), "A"),
      Record(Blank, Text, "First", Num(100), Num(-10), Text, "B"),
      Record(Date(1), Blank, "Standard", Num(100), Num(20), Blank, "A") }

RECURSIVE SeqsUpTo(_, _)
SeqsUpTo(S, n) ==
    IF n = 0 THEN {<<>>}
    ELSE LET shorter == SeqsUpTo(S, n - 1)
         IN shorter \cup {Append(q, x) : q \in shorter, x \in S}

(* The column sets a sheet may have: all of them, or all but one *)
SourceColumns == {AllColumns} \cup {AllColumns \ {c} : c \in AllColumns}

Restrict(r, cols) == [c \in cols |-> r[c]]

RestrictAll(rows, cols) == [i \in 1..Len(rows) |-> Restrict(rows[i], cols)]

Sheets ==
    {[columns |-> cols, rows |-> RestrictAll(rows, cols)] :
        cols \in SourceColumns, rows \in SeqsUpTo(SourceRecords, MaxRows)}

SourceStatus == {"ok", "no_secrets", "unreachable"}

Sources == {[status |-> st, columns |-> sh.columns, rows |-> sh.rows] :
                st \in SourceStatus, sh \in Sheets}

----------------------------------------------------------------------------
(* carregar_dados *)

NoTable == [columns |-> {}, rows |-> <<>>]

(* pd.DataFrame(worksheet.get_all_records()): a list of dicts; with no      *)
(* record there is no dict to take the columns from                         *)
DataFrame(src) ==
    [columns |-> IF Len(src.rows) = 0 THEN {} ELSE src.columns, rows |-> src.rows]

(* The type conversions of one record, column by column *)
Convert(r) ==
    [c \in DOMAIN r |->
        CASE c = "Order Date" -> to_datetime(r[c])
          [] c \in NumericColumns -> to_numeric(r[c])
          [] c = "Ship Date" -> to_datetime_coerce(r[c])
          [] OTHER -> r[c]]

ConvertAll(rows) == [i \in 1..Len(rows) |-> Convert(rows[i])]

IsNull(x) == x.t \in {"nan", "nat"}

(* df.dropna(subset=cols): the records with no missing value in cols *)
dropna(rows, cols) == SelectSeq(rows, LAMBDA r : \A c \in cols : ~IsNull(r[c]))

Failure(e) == [ok |-> FALSE, err |-> e, table |-> NoTable]

(* The body of carregar_dados: the table it returns, or the except clause  *)
(* that handles what it raised                                             *)
carregar_dados(src) ==
    IF src.status = "no_secrets" THEN Failure("FileNotFoundError")
    ELSE IF src.status = "unreachable" THEN Failure("Exception")
    ELSE LET df == DataFrame(src)
         IN IF "Order Date" \in df.columns /\ to_datetime_raises(df.rows, "Order Date")
            THEN Failure("Exception")
            ELSE IF ~({"Sales", "Profit"} \subseteq df.columns)
            THEN Failure("Exception")
            ELSE [ok |-> TRUE, err |-> "",
                  table |-> [columns |-> df.columns,
                             rows |-> dropna(ConvertAll(df.rows), {"Sales", "Profit"})]]

----------------------------------------------------------------------------
(* Aggregation *)

Float(n, d) == [t |-> "num", num |-> n, den |-> d]

FNaN == [t |-> "nan", num |-> 0, den |-> 1]

FInf == [t |-> "inf", num |-> 0, den |-> 1]

FNegInf == [t |-> "-inf", num |-> 0, den |-> 1]

(* a / b in float64 arithmetic, as pandas and numpy compute it: a division *)
(* by zero raises nothing, it gives inf, -inf or nan                       *)
truediv(a, b) ==
    IF b # 0 THEN Float(a, b)
    ELSE IF a > 0 THEN FInf ELSE IF a < 0 THEN FNegInf ELSE FNaN

(* (profit / sales) * 100 on a column of sums *)
profitMargin(profit, sales) == truediv(profit * 100, sales)

(* Series.sum(): missing values are skipped *)
RECURSIVE Sum(_, _)
Sum(rows, col) ==
    IF Len(rows) = 0 THEN 0
    ELSE (IF rows[1][col].t = "num" THEN rows[1][col].n ELSE 0) + Sum(Tail(rows), col)

(* Series.count(): the values that are not missing *)
Count(rows, col) == Len(SelectSeq(rows, LAMBDA r : ~IsNull(r[col])))

(* Series.mean(): missing values are skipped; nan when none is left *)
Mean(rows, col) ==
    IF Count(rows, col) = 0 THEN FNaN ELSE Float(Sum(rows, col), Count(rows, col))

(* The k-th smallest of the values of col that are not missing *)
Kth(rows, col, k) ==
    LET vals == SelectSeq(rows, LAMBDA r : ~IsNull(r[col]))
        I == 1..Len(vals)
    IN CHOOSE v \in {vals[i][col].n : i \in I} :
          /\ Cardinality({i \in I : vals[i][col].n < v}) < k
          /\ k <= Cardinality({i \in I : vals[i][col].n <= v})

(* Series.median() *)
Median(rows, col) ==
    LET n == Count(rows, col)
    IN IF n = 0 THEN FNaN
       ELSE IF n % 2 = 1 THEN Float(Kth(rows, col, (n + 1) \div 2), 1)
       ELSE Float(Kth(rows, col, n \div 2) + Kth(rows, col, n \div 2 + 1), 2)

(* df[col], record by record *)
Column(rows, col) == [i \in 1..Len(rows) |-> rows[i][col]]

(* The records whose key, given record by record in "by", is k *)
RECURSIVE Pick(_, _, _)
Pick(rows, by, k) ==
    IF Len(rows) = 0 THEN <<>>
    ELSE (IF Head(by) = k THEN <<Head(rows)>> ELSE <<>>) \o Pick(Tail(rows), Tail(by), k)

(* df.groupby(by).agg(sales=('Sales','sum'), profit=('Profit','sum')): one *)
(* row per value of the key that occurs                                    *)
GroupBy(rows, by) ==
    LET keys == {by[i] : i \in 1..Len(rows)}
        Of(k) == Pick(rows, by, k)
    IN {[key |-> k, sales |-> Sum(Of(k), "Sales"), profit |-> Sum(Of(k), "Profit")] :
            k \in keys}

(* g['profitMargin'] = (g['profit'] / g['sales']) * 100 *)
WithMargin(g) ==
    {[key |-> a.key, sales |-> a.sales, profit |-> a.profit,
      profitMargin |-> profitMargin(a.profit, a.sales)] : a \in g}

(* ... if not g.empty else 0: the scalar 0 fills the column of a frame     *)
(* that has no row                                                         *)
LossMargin(g) ==
    IF g # {} THEN WithMargin(g)
    ELSE {[key |-> a.key, sales |-> a.sales, profit |-> a.profit,
           profitMargin |-> Float(0, 1)] : a \in g}

(* df[df['Profit'] < 0] *)
Losses(rows) == SelectSeq(rows, LAMBDA r : r["Profit"].n < 0)

(* df[col] = values, in place *)
Assign(df, col, values) ==
    [columns |-> df.columns \cup {col},
     rows |-> [i \in 1..Len(df.rows) |->
                 [c \in DOMAIN df.rows[i] \cup {col} |->
                     IF c = col THEN values[i] ELSE df.rows[i][c]]]]

(* Series.dt.year *)
Year(d) == 2024 + (d.n \div 366)

bins == <<0, 10, 20, 30, 40, 50, 60, 70, 80, 90, 100>>

labels == <<"0% - 10%", "10% - 20%", "20% - 30%", "30% - 40%", "40% - 50%",
            "50% - 60%", "60% - 70%", "70% - 80%", "80% - 90%", "90% - 100%">>

(* pd.cut(x, bins=bins, labels=labels, right=False) on one cell: the code  *)
(* of the interval [bins[i], bins[i+1]) that holds x, or -1 (missing)      *)
cut(x) ==
    LET hit == {i \in 1..(Len(bins) - 1) : bins[i] <= x.n /\ x.n < bins[i + 1]}
    IN IF x.t = "num" /\ hit # {} THEN (CHOOSE i \in hit : TRUE) - 1 ELSE -1

(* (Ship Date - Order Date).dt.days *)
ShippingTime(r) ==
    IF r["Ship Date"].t = "date" /\ r["Order Date"].t = "date"
    THEN Num(r["Ship Date"].n - r["Order Date"].n)
    ELSE NaN

----------------------------------------------------------------------------
(* What a pass renders *)

TableNames == {"yearly", "category", "subcategory_profit", "loss_subcategories",
               "region", "loss_states", "segment", "discount_impact", "ship_mode"}

NoKpi == [sales |-> 0, profit |-> 0, margin |-> Float(0, 1)]

NoOutput ==
    [errors |-> 0,
     warnings |-> {},
     rendered |-> {},
     kpi |-> NoKpi,
     tables |-> [n \in TableNames |-> {}],
     corr_rows |-> 0,
     shipping |-> [mean |-> FNaN, median |-> FNaN],
     recomendacoes |-> 0]

(* st.dataframe / st.plotly_chart of a frame *)
Render(o, name, rows) ==
    [o EXCEPT !.rendered = @ \cup {name}, !.tables[name] = rows]

(* st.warning *)
Warn(o, w) == [o EXCEPT !.warnings = @ \cup {w}]

Step(o, df) == [out |-> o, df |-> df, raised |-> FALSE]

Raise(o, df) == [out |-> o, df |-> df, raised |-> TRUE]

----------------------------------------------------------------------------
(* The seven tab blocks, each as a function of the table it reads and of   *)
(* what is rendered so far.  "raised" is an exception no handler catches.  *)

(* with tab1: KPIs and the yearly chart *)
tab1(df, o) ==
    IF ~({"Sales", "Profit"} \subseteq df.columns) THEN Raise(o, df)
    ELSE
    LET total_sales == Sum(df.rows, "Sales")
        total_profit == Sum(df.rows, "Profit")
        overall_profit_margin ==
            IF total_sales # 0 THEN profitMargin(total_profit, total_sales)
            ELSE Float(0, 1)
        o1 == [o EXCEPT !.rendered = @ \cup {"kpi"},
                        !.kpi = [sales |-> total_sales, profit |-> total_profit,
                                 margin |-> overall_profit_margin]]
        dated == dropna(df.rows, {"Order Date"})
        yearly_df == {[Ano |-> a.key, Vendas |-> a.sales, Lucro |-> a.profit] :
                         a \in GroupBy(dated, [i \in 1..Len(dated) |->
                                                  Year(dated[i]["Order Date"])])}
    IN IF "Order Date" \in df.columns
       THEN Step(Render(o1, "yearly", yearly_df), df)
       ELSE Step(Warn(o1, "Order Date"), df)

(* with tab2: categories, sub-categories, loss-making sub-categories *)
tab2(df, o) ==
    LET category_df == WithMargin(GroupBy(df.rows, Column(df.rows, "Category")))
        o1 == IF "Category" \in df.columns
              THEN Render(o, "category", category_df)
              ELSE Warn(o, "Category")
        subcategory_profit_df ==
            {[key |-> a.key, profit |-> a.profit] :
                a \in GroupBy(df.rows, Column(df.rows, "Sub-Category"))}
        o2 == Render(o1, "subcategory_profit", subcategory_profit_df)
        losses == Losses(df.rows)
        loss_subcategories_df ==
            LossMargin(GroupBy(losses, [i \in 1..Len(losses) |->
                          <<losses[i]["Category"], losses[i]["Sub-Category"]>>]))
    IN IF "Sub-Category" \notin df.columns THEN Step(Warn(o1, "Sub-Category"), df)
       ELSE IF "Category" \notin df.columns THEN Raise(o2, df)
       ELSE Step(Render(o2, "loss_subcategories", loss_subcategories_df), df)

(* with tab3: regions, loss-making states *)
tab3(df, o) ==
    LET region_df == WithMargin(GroupBy(df.rows, Column(df.rows, "Region")))
        o1 == IF "Region" \in df.columns
              THEN Render(o, "region", region_df)
              ELSE Warn(o, "Region")
        loss_states_df == LossMargin(GroupBy(Losses(df.rows), Column(Losses(df.rows), "State")))
    IN IF "State" \in df.columns
       THEN Step(Render(o1, "loss_states", loss_states_df), df)
       ELSE Step(Warn(o1, "State"), df)

(* with tab4: segments *)
tab4(df, o) ==
    LET segment_df == WithMargin(GroupBy(df.rows, Column(df.rows, "Segment")))
    IN IF "Segment" \in df.columns
       THEN Step(Render(o, "segment", segment_df), df)
       ELSE Step(Warn(o, "Segment"), df)

(* The correlation matrix is computed unless numeric_df.empty *)
corr_computed(numeric_df) == Len(numeric_df) # 0

(* with tab5: correlation matrix and margin per discount range.  The       *)
(* grouping column is categorical, so every label gives a row, also one    *)
(* no record falls in.                                                     *)
tab5(df, o) ==
    LET numeric_df == dropna(df.rows, {"Sales", "Profit", "Discount"})
        o1 == IF corr_computed(numeric_df)
              THEN [o EXCEPT !.rendered = @ \cup {"corr"}, !.corr_rows = Len(numeric_df)]
              ELSE Warn(o, "corr")
        df1 == Assign(df, "Discount_Range",
                     [i \in 1..Len(df.rows) |-> cut(df.rows[i]["Discount"])])
        In(i) == Pick(df1.rows, Column(df1.rows, "Discount_Range"), i - 1)
        discount_impact_df ==
            WithMargin({[key |-> labels[i], sales |-> Sum(In(i), "Sales"),
                         profit |-> Sum(In(i), "Profit")] : i \in 1..Len(labels)})
    IN IF {"Discount", "Profit", "Sales"} \subseteq df.columns
       THEN Step(Render(o1, "discount_impact", discount_impact_df), df1)
       ELSE Step(Warn(o, "Discount"), df)

(* with tab6: ship modes and shipping time *)
tab6(df, o) ==
    LET df1 == Assign(df, "Shipping Time",
                     [i \in 1..Len(df.rows) |-> ShippingTime(df.rows[i])])
        Of(k) == Pick(df1.rows, Column(df1.rows, "Ship Mode"), k)
        ship_mode_df ==
            {[key |-> a.key, sales |-> a.sales, profit |-> a.profit,
              profitMargin |-> a.profitMargin,
              avgTime |-> Mean(Of(a.key), "Shipping Time")] :
                a \in WithMargin(GroupBy(df1.rows, Column(df1.rows, "Ship Mode")))}
        o1 == [Render(o, "ship_mode", ship_mode_df) EXCEPT
                  !.rendered = @ \cup {"shipping_kpi"},
                  !.shipping = [mean |-> Mean(df1.rows, "Shipping Time"),
                                median |-> Median(df1.rows, "Shipping Time")]]
    IN IF {"Ship Mode", "Order Date", "Ship Date"} \subseteq df.columns
       THEN Step(o1, df1)
       ELSE Step(Warn(o, "Ship Mode"), df)

----------------------------------------------------------------------------
(* The script run *)

Terminal == {"done", "stopped", "crashed"}

NoEntry == [has |-> FALSE, table |-> NoTable, at |-> 0]

(* st.cache_data(ttl=10): an entry is served until it is ttl seconds old *)
CacheHit(c, t) == c.has /\ t - c.at < ttl

(* A cache that would also keep what a failed call left behind *)
CacheStoreAnyResult(c, r, t) == [has |-> TRUE, table |-> r.table, at |-> t]

(* The entry after the body ran at time t with result r: the return value  *)
(* is stored; a call that raised stores nothing                            *)
CacheStore(c, r, t) ==
    IF r.ok THEN [has |-> TRUE, table |-> r.table, at |-> t] ELSE c

(* dataset_superstore = carregar_dados(), the except clauses included:     *)
(* st.error(...) then st.stop(), which ends the script run                 *)
Load ==
    /\ pc = "load"
    /\ IF CacheHit(cache, now)
       THEN /\ ns' = ("dataset_superstore" :> cache.table) @@ ns
            /\ pc' = "tab1"
            /\ UNCHANGED <<cache, out>>
       ELSE LET r == carregar_dados(source)
            IN /\ cache' = CacheStore(cache, r, now)
               /\ IF r.ok
                  THEN /\ ns' = ("dataset_superstore" :> r.table) @@ ns
                       /\ pc' = "tab1"
                       /\ out' = out
                  ELSE /\ ns' = ns
                       /\ pc' = "stopped"
                       /\ out' = [out EXCEPT !.errors = @ + 1]
    /\ UNCHANGED <<source, now>>

(* What the name raw_superstore_data stands for in a tab block *)
raw_superstore_data == ns["raw_superstore_data"]

(* A tab block that reads the global raw_superstore_data and ends as r: a  *)
(* NameError when the name is not bound; an unhandled exception ends the   *)
(* script run                                                              *)
Block(next, r) ==
    /\ IF "raw_superstore_data" \notin DOMAIN ns
       THEN /\ pc' = "crashed"
            /\ UNCHANGED <<ns, out>>
       ELSE /\ pc' = IF r.raised THEN "crashed" ELSE next
            /\ out' = r.out
            /\ ns' = [ns EXCEPT !["raw_superstore_data"] = r.df]
    /\ UNCHANGED <<source, cache, now>>

Tab1 ==
    /\ pc = "tab1"
    /\ Block("tab2", tab1(raw_superstore_data, out))

Tab2 ==
    /\ pc = "tab2"
    /\ Block("tab3", tab2(raw_superstore_data, out))

Tab3 ==
    /\ pc = "tab3"
    /\ Block("tab4", tab3(raw_superstore_data, out))

Tab4 ==
    /\ pc = "tab4"
    /\ Block("tab5", tab4(raw_superstore_data, out))

Tab5 ==
    /\ pc = "tab5"
    /\ Block("tab6", tab5(raw_superstore_data, out))

Tab6 ==
    /\ pc = "tab6"
    /\ Block("tab7", tab6(raw_superstore_data, out))

(* with tab7: the fixed list of five recommendations *)
Tab7 ==
    /\ pc = "tab7"
    /\ pc' = "done"
    /\ out' = [out EXCEPT !.rendered = @ \cup {"recomendacoes"}, !.recomendacoes = 5]
    /\ UNCHANGED <<source, cache, now, ns>>

(* The next interaction: the script runs again from the top, in a fresh    *)
(* namespace                                                               *)
Rerun ==
    /\ pc \in Terminal
    /\ pc' = "load"
    /\ ns' = <<>>
    /\ out' = NoOutput
    /\ UNCHANGED <<source, cache, now>>

(* Time passes between two runs *)
Tick ==
    /\ pc \in Terminal
    /\ now + TickStep <= MaxClock
    /\ now' = now + TickStep
    /\ UNCHANGED <<source, cache, pc, ns, out>>

(* The environment: the secrets or the spreadsheet come and go *)
SourceChange ==
    /\ pc \in Terminal
    /\ \E st \in SourceStatus \ {source.status} :
          source' = [source EXCEPT !.status = st]
    /\ UNCHANGED <<cache, now, pc, ns, out>>

Init ==
    /\ source \in Sources
    /\ cache = NoEntry
    /\ now = 0
    /\ pc = "load"
    /\ ns = <<>>
    /\ out = NoOutput

(* The script as it is: the blocks after tab1 run only when tab1 ends      *)
(* normally                                                                *)
Next == Load \/ Tab1 \/ Rerun \/ Tick \/ SourceChange

Spec == Init /\ [][Next]_vars

(* The tab blocks applied to a table: every table the loader can return,   *)
(* read under the name the blocks use                                      *)
ViewInit ==
    /\ source \in {s \in Sources : carregar_dados(s).ok}
    /\ cache = CacheStore(NoEntry, carregar_dados(source), 0)
    /\ now = 0
    /\ pc = "tab1"
    /\ ns = ("raw_superstore_data" :> carregar_dados(source).table)
    /\ out = NoOutput

ViewNext == Tab1 \/ Tab2 \/ Tab3 \/ Tab4 \/ Tab5 \/ Tab6 \/ Tab7

ViewSpec == ViewInit /\ [][ViewNext]_vars

----------------------------------------------------------------------------
(* Properties *)

(* The table the loader returns for the sheet, when the sheet can be read *)
Sheet == [source EXCEPT !.status = "ok"]

Loaded == carregar_dados(Sheet).table

RECURSIVE Total(_, _)
Total(g, field) ==
    IF g = {} THEN 0
    ELSE LET a == CHOOSE x \in g : TRUE IN a[field] + Total(g \ {a}, field)

MarginTables == {"category", "loss_subcategories", "region", "loss_states",
                 "segment", "discount_impact", "ship_mode"}

IsZero(f) == f.t = "num" /\ f.num = 0

C2_AbsentColumnNeverFailsLoad ==
    [][(/\ pc = "load"
        /\ source.status = "ok"
        /\ Len(source.rows) > 0
        /\ ExpectedColumns \ source.columns # {}
        /\ ~("Order Date" \in source.columns
                /\ to_datetime_raises(source.rows, "Order Date")))
          => pc' # "stopped"]_vars

UnfilteredViews == {"category", "region", "segment", "discount_impact", "ship_mode"}

Parses(x) == x.t \in {"num", "date"}

(* C5: from a sheet that can be read and has a Sales and a Profit column,  *)
(* the loader returns exactly the records whose Sales and Profit parse,    *)
(* in their order: the others are excluded, and these are all kept.        *)
C5_UnparseableSalesProfitExcludedOthersKept ==
    [][(/\ pc = "load"
        /\ source.status = "ok"
        /\ Len(source.rows) > 0
        /\ {"Sales", "Profit"} \subseteq source.columns)
          => /\ pc' = "tab1"
             /\ ns'["dataset_superstore"].rows =
                   ConvertAll(SelectSeq(source.rows,
                       LAMBDA r : Parses(r["Sales"]) /\ Parses(r["Profit"])))]_vars

CoercedColumns == {"Order Date", "Ship Date", "Sales", "Profit", "Discount", "Shipping Cost"}

(* C6: an unparseable value in a coerced column is never a fatal load      *)
(* error: a sheet that can be read and has a Sales and a Profit column     *)
(* loads, whatever its cells hold.                                         *)
C6_UnparseableValueNeverFatal ==
    [][(/\ pc = "load"
        /\ source.status = "ok"
        /\ Len(source.rows) > 0
        /\ {"Sales", "Profit"} \subseteq source.columns
        /\ \E i \in 1..Len(source.rows) : \E c \in CoercedColumns \cap source.columns :
              ~Parses(source.rows[i][c]))
          => pc' # "stopped"]_vars

(* C7: a failed load reports one error and ends the pass with nothing      *)
(* rendered and no table bound; the pass goes on only as a new run from    *)
(* the top; the failed call leaves the cache as it was, and what the cache *)
(* holds is always the table of a successful load, so the next pass        *)
(* either is served that table or runs the loader again.                   *)
C7_FailedLoadHaltsAndIsNotCached ==
    /\ [](pc = "stopped" =>
            /\ out.errors = 1
            /\ out.rendered = {}
            /\ out.warnings = {}
            /\ DOMAIN ns = {})
    /\ [](cache.has => carregar_dados(Sheet).ok /\ cache.table = Loaded)
    /\ [][(pc = "load" /\ pc' = "stopped") =>
             /\ ~carregar_dados(source).ok
             /\ cache' = cache]_vars
    /\ [][(pc = "stopped" /\ pc' # "stopped") =>
             /\ pc' = "load"
             /\ out' = NoOutput]_vars

(* A load fails after an earlier load of the same sheet was cached and the *)
(* entry has expired.                                                      *)
C7_Witness ==
    /\ pc = "stopped"
    /\ out.errors = 1
    /\ cache.has
    /\ ~CacheHit(cache, now)

C10_PassReachesRecommendations ==
    ("dataset_superstore" \in DOMAIN ns
        /\ Len(ns["dataset_superstore"].rows) > 0
        /\ ExpectedColumns \subseteq ns["dataset_superstore"].columns)
      => pc # "crashed"

====
